---- MODULE Spec2Model ----
(***************************************************************************)
(* Model of the view_reports pipeline (src/processor.py):                  *)
(*   clean_input_files_to_excels -> map_house_numbers ->                   *)
(*   fill_template_files -> run_pipeline_and_zip.                          *)
(*                                                                         *)
(* Text is modelled as a sequence of symbols.  A symbol is a TLA+ string   *)
(* standing for one indivisible piece of text: a single character ("a",    *)
(* "_", "/", "-", " "), a vendor token of a file name, a file extension,   *)
(* a stage prefix, or a whole column label.  The inputs never spell a      *)
(* multi-character symbol out of shorter symbols, so two texts are equal   *)
(* exactly when their symbol sequences are equal.                          *)
(*                                                                         *)
(* A cell is a record [t, v]: t is "nan" (empty cell), "str" (text) or     *)
(* "num" (number), v the symbols of its value.                             *)
(***************************************************************************)
EXTENDS Integers, Sequences, FiniteSets, TLC

VARIABLES
    entry,                  \* the public function that was called
    pc,                     \* position of the call: stage being run
    err,                    \* the exception that ended the call, or "none"
    platform_files,         \* uploaded files: sequence of (name, bytes)
    db_excel_bytes,         \* the reference map workbook
    template_excel_bytes,   \* the template workbook
    include_intermediate,   \* flag of run_pipeline_and_zip
    month_str,              \* the report month, MM/YYYY
    cleaned,                \* dict name -> bytes, output of the Extractor
    mapped,                 \* dict name -> bytes, output of the Reconciler
    templated,              \* dict name -> bytes, output of the Populator
    idx,                    \* loop index of the running stage
    db_lookups,             \* lookups built from the reference map
    wb,                     \* the workbook object last loaded by the Populator
    emit_log,               \* history: the dict assignments made so far
    zip_names,              \* names written to the archive, in order
    summary,                \* the three counts of the run summary
    arg,                    \* the arguments of a helper called on its own
    ret                     \* the value that helper returned

vars == <<entry, pc, err, platform_files, db_excel_bytes, template_excel_bytes,
          include_intermediate, month_str, cleaned, mapped, templated, idx,
          db_lookups, wb, emit_log, zip_names, summary, arg, ret>>

-----------------------------------------------------------------------------
(* Text helpers *)

\* str.lower() on one symbol
LowerSym(sym) ==
    CASE sym = ".XLSX" -> ".xlsx"
      [] sym = ".XLS" -> ".xls"
      [] sym = ".CSV" -> ".csv"
      [] sym = "VOD" -> "vod"
      [] sym = "ScreenIL" -> "screenil"
      [] sym = "NEXT" -> "next"
      [] sym = "Next" -> "next"
      [] OTHER -> sym

\* str.upper() on one symbol
UpperSym(sym) ==
    CASE sym = ".xlsx" -> ".XLSX"
      [] sym = ".xls" -> ".XLS"
      [] sym = ".csv" -> ".CSV"
      [] sym = "vod" -> "VOD"
      [] sym = "screenil" -> "SCREENIL"
      [] sym = "ScreenIL" -> "SCREENIL"
      [] sym = "next" -> "NEXT"
      [] sym = "Next" -> "NEXT"
      [] OTHER -> sym

lower(s) == [i \in 1..Len(s) |-> LowerSym(s[i])]

upper(s) == [i \in 1..Len(s) |-> UpperSym(s[i])]

\* `tok in s` for a token that is one symbol
Contains(s, tok) == \E i \in 1..Len(s) : s[i] = tok

\* s.endswith(suffix) for a suffix that is one symbol
endswith(s, suffix) == Len(s) > 0 /\ s[Len(s)] = suffix

\* the elements of seq whose index is in keep, in order
TakeIdx(seq, keep) ==
    LET F[n \in 0..Len(seq)] ==
            IF n = 0 THEN <<>>
            ELSE IF n \in keep THEN Append(F[n - 1], seq[n]) ELSE F[n - 1]
    IN  F[Len(seq)]

ExtSymbols == {".xlsx", ".XLSX", ".xls", ".XLS", ".csv", ".CSV", ".txt"}

\* os.path.splitext: a leading dot does not start an extension
splitext(name) ==
    IF Len(name) >= 2 /\ name[Len(name)] \in ExtSymbols
    THEN <<SubSeq(name, 1, Len(name) - 1), <<name[Len(name)]>>>>
    ELSE <<name, <<>>>>

-----------------------------------------------------------------------------
(* Cells and frames *)

NaN == [t |-> "nan", v |-> <<>>]

Txt(s) == [t |-> "str", v |-> s]

Num(n) == [t |-> "num", v |-> <<ToString(n)>>]

notna(c) == c.t # "nan"

isna(c) == c.t = "nan"

\* str(value): a number becomes its digits, an empty cell the text "nan"
str(c) == IF isna(c) THEN Txt(<<"nan">>) ELSE Txt(c.v)

\* a DataFrame: column labels and rows of cells
Frame(cols, rows) == [columns |-> cols, rows |-> rows]

EmptyFrame == Frame(<<>>, <<>>)

\* the position of a column label, 0 when the label is absent
ColIndex(df, label) ==
    IF \E j \in 1..Len(df.columns) : df.columns[j] = label
    THEN CHOOSE j \in 1..Len(df.columns) :
             /\ df.columns[j] = label
             /\ \A k \in 1..(j - 1) : df.columns[k] # label
    ELSE 0

HasCol(df, label) == ColIndex(df, label) # 0

\* df[label].tolist()
Column(df, label) == [i \in 1..Len(df.rows) |-> df.rows[i][ColIndex(df, label)]]

-----------------------------------------------------------------------------
(* Stage 1: the Extractor *)

DENSE_MIN == 4

LOOKAHEAD == 5

SIZE_GATE == 15

NoStart == -1

RowHasData(r) == \E j \in 1..Len(r) : notna(r[j])

FilledCount(r) == Cardinality({j \in 1..Len(r) : notna(r[j])})

\* a scan that stops one row early: range(len(df) - 6)
_find_table_start_Short(df) ==
    LET cand == {i \in 0..(Len(df) - LOOKAHEAD - 2) :
                    /\ RowHasData(df[i + 1])
                    /\ \A k \in 1..LOOKAHEAD : RowHasData(df[i + 1 + k])}
    IN  IF cand = {} THEN NoStart
        ELSE CHOOSE i \in cand : \A k \in cand : i <= k

\* first 0-based row i with data whose next LOOKAHEAD rows all have data
_find_table_start(df) ==
    LET cand == {i \in 0..(Len(df) - LOOKAHEAD - 1) :
                    /\ RowHasData(df[i + 1])
                    /\ \A k \in 1..LOOKAHEAD : RowHasData(df[i + 1 + k])}
    IN  IF cand = {} THEN NoStart
        ELSE CHOOSE i \in cand : \A k \in cand : i <= k

\* a filter that looks at the predecessor only for the rows after row 0
_filter_rows_PrevOnly(df) ==
    TakeIdx(df, {i \in 1..Len(df) :
                    IF i = 1 THEN FilledCount(df[i]) >= DENSE_MIN
                    ELSE FilledCount(df[i - 1]) >= DENSE_MIN})

\* keep row 0 if it is dense, a later row if it and its predecessor are dense
_filter_rows(df) ==
    TakeIdx(df, {i \in 1..Len(df) :
                    /\ FilledCount(df[i]) >= DENSE_MIN
                    /\ (i > 1 => FilledCount(df[i - 1]) >= DENSE_MIN)})

\* dropna(axis=1, how="all"): drop the columns empty in every row
DropEmptyColumns(df) ==
    LET keep == {j \in 1..Len(df.columns) :
                    \E i \in 1..Len(df.rows) : notna(df.rows[i][j])}
    IN  Frame(TakeIdx(df.columns, keep),
              [i \in 1..Len(df.rows) |-> TakeIdx(df.rows[i], keep)])

\* the first row becomes the header, the rest is data
_finalize_cleaned(df) ==
    IF Len(df) > 0
    THEN DropEmptyColumns(Frame(Head(df), Tail(df)))
    ELSE EmptyFrame

\* a gate that discards only below 15 rows
PassesSizeGate_Below(df) == ~(Len(df.rows) < SIZE_GATE)

\* the size gate of line 103: len(df) <= 15 discards the sheet
PassesSizeGate(df) == ~(Len(df.rows) <= SIZE_GATE)


-----------------------------------------------------------------------------
(* Python dicts: insertion-ordered, assignment to a present key replaces    *)
(* its value in place                                                       *)

DictKeys(d) == {d[i].k : i \in 1..Len(d)}

DictHas(d, key) == \E i \in 1..Len(d) : d[i].k = key

DictGet(d, key) == d[CHOOSE i \in 1..Len(d) : d[i].k = key].v

\* d[key] = value
DictSet(d, key, value) ==
    IF DictHas(d, key)
    THEN [i \in 1..Len(d) |-> IF d[i].k = key THEN [k |-> key, v |-> value] ELSE d[i]]
    ELSE Append(d, [k |-> key, v |-> value])

\* d[key] = value for each (name, bytes) of items, in order
DictSetAll(d, items) ==
    LET F[n \in 0..Len(items)] ==
            IF n = 0 THEN d
            ELSE DictSet(F[n - 1], items[n].name, items[n].bytes)
    IN  F[Len(items)]

-----------------------------------------------------------------------------
(* Documents as bytes *)

\* the whitespace symbols: the space and the tab
TAB == "tab"

IsSpace(sym) == sym = " " \/ sym = TAB

\* s.strip(): whitespace is removed from both ends
Strip(s) ==
    LET nonsp == {i \in 1..Len(s) : ~IsSpace(s[i])}
    IN  IF nonsp = {} THEN <<>>
        ELSE SubSeq(s, CHOOSE i \in nonsp : \A k \in nonsp : i <= k,
                       CHOOSE i \in nonsp : \A k \in nonsp : i >= k)

\* df.to_excel(buf, index=False): a header row and the body
to_excel(df) == [fmt |-> "xlsx", header |-> df.columns, body |-> df.rows]

\* df.to_csv(buf, index=False)
to_csv(df) == [fmt |-> "csv", header |-> df.columns, body |-> df.rows]

\* pd.read_excel(bytes): an empty header cell reads as "Unnamed: j"
read_excel(b) ==
    Frame([j \in 1..Len(b.header) |->
              IF isna(b.header[j]) THEN Txt(<<"Unnamed: ", ToString(j - 1)>>)
              ELSE b.header[j]],
          b.body)

\* df.columns = df.columns.astype(str).str.strip()
StripColumns(df) ==
    Frame([j \in 1..Len(df.columns) |-> Txt(Strip(str(df.columns[j]).v))], df.rows)

\* dropna(how="all") on rows
DropEmptyRows(df) ==
    Frame(df.columns, TakeIdx(df.rows, {i \in 1..Len(df.rows) : RowHasData(df.rows[i])}))

\* drop_duplicates(): keep the first of equal rows
drop_duplicates(rows) ==
    TakeIdx(rows, {i \in 1..Len(rows) : \A k \in 1..(i - 1) : rows[k] # rows[i]})

-----------------------------------------------------------------------------
(* clean_input_files_to_excels, one uploaded file *)

PFX_CLEANED == "cleaned_"

PFX_MAPPED == "mapped_"

PFX_TEMPLATE == "template_"

IsExcelName(name) == endswith(lower(name), ".xlsx") \/ endswith(lower(name), ".xls")

IsCsvName(name) == endswith(lower(name), ".csv")

\* str(sheet_name).replace("/", "_").replace("\\", "_")
SafeSheet(sheet_name) ==
    [i \in 1..Len(sheet_name) |->
        IF sheet_name[i] = "/" \/ sheet_name[i] = "\\" THEN "_" ELSE sheet_name[i]]

\* f"cleaned_{base_name}_{safe_sheet}{ext}", ext defaulting to ".xlsx"
CleanedSheetName(original_name, sheet_name) ==
    LET base_name == splitext(original_name)[1]
        ext0 == splitext(original_name)[2]
        ext == IF ext0 = <<>> THEN <<".xlsx">> ELSE ext0
    IN  <<PFX_CLEANED>> \o base_name \o <<"_">> \o SafeSheet(sheet_name) \o ext

\* lines 95-101: the cleaned table of one sheet (empty when no start is found)
CleanSheet(grid) ==
    LET table_start == _find_table_start(grid)
    IN  IF table_start = NoStart THEN EmptyFrame
        ELSE _finalize_cleaned(_filter_rows(SubSeq(grid, table_start + 1, Len(grid))))

\* lines 96-104: is the sheet written to the outputs
SheetEmitted(grid) ==
    /\ _find_table_start(grid) # NoStart
    /\ PassesSizeGate(CleanSheet(grid))

\* lines 116-117: read_csv takes the first line as header
CleanCsv(grid) ==
    LET df == Frame(Head(grid), Tail(grid))
    IN  DropEmptyColumns(DropEmptyRows(df))

\* a CSV branch that applies the size gate of the sheets
CsvEmitted_Gated(df) == PassesSizeGate(df)

\* is a CSV table written to the outputs: lines 119-124 have no gate
CsvEmitted(df) == TRUE

\* the (name, bytes) assignments one readable file makes to outputs, in order
FileOutputs(file) ==
    IF IsExcelName(file.name)
    THEN LET all == [j \in 1..Len(file.sheets) |->
                        [sheet |-> j,
                         name |-> CleanedSheetName(file.name, file.sheets[j].name),
                         bytes |-> to_excel(CleanSheet(file.sheets[j].grid))]]
         IN  TakeIdx(all, {j \in 1..Len(file.sheets) : SheetEmitted(file.sheets[j].grid)})
    ELSE IF IsCsvName(file.name)
    THEN IF CsvEmitted(CleanCsv(file.csv))
         THEN <<[sheet |-> 0,
                 name |-> <<PFX_CLEANED>> \o file.name,
                 bytes |-> to_csv(CleanCsv(file.csv))]>>
         ELSE <<>>
    ELSE <<>>

\* pd.read_excel / pd.read_csv raise on bytes they cannot parse
ReadRaises(file) == (IsExcelName(file.name) \/ IsCsvName(file.name)) /\ ~file.ok

-----------------------------------------------------------------------------
(* Stage 2: the Reconciler *)

\* vendor tokens of file names
TOK_PARTNER == "פרטנר"

TOK_YES == "יס"

TOK_STING == "סטינג"

TOK_CELLCOM == "סלקום"

TOK_HOT == "הוט"

TOK_SIFRIA == "ספריה"

TOK_SIFRIYA == "ספרייה"

\* column labels of the vendor exports
COL_PARTNER_PROG == Txt(<<"שם תוכן">>)

COL_YES_PROG == Txt(<<"תאור אירוע">>)

COL_SCREENIL_PROG == Txt(<<"Title Translation">>)

COL_STINGVOD_PROG == Txt(<<"שם מלא">>)

COL_STING_PROG == Txt(<<"תוכן">>)

COL_CELLCOM_KEY == Txt(<<"קוד מזהה">>)

COL_HOT_KEY == Txt(<<"מזהה ייחודי קשת">>)

COL_NEXT_KEY == Txt(<<"מזהה ייחודי קשת NP">>)

COL_HOUSE_NUMBER == Txt(<<"HOUSE_NUMBER">>)

\* a function returning None
None == [t |-> "none", v |-> <<>>]

isinstance_str(c) == c.t = "str"

\* the symbols of the en dash (U+2013) and the em dash (U+2014)
EN_DASH == "ndash"

EM_DASH == "mdash"

IsDash(sym) == sym = "-" \/ sym = EN_DASH \/ sym = EM_DASH

\* concatenation of a sequence of texts
Concat(parts) ==
    LET F[n \in 0..Len(parts)] == IF n = 0 THEN <<>> ELSE F[n - 1] \o parts[n]
    IN  F[Len(parts)]

\* re.sub(r"\s+", " ", s): a run of whitespace becomes one space
CollapseSpaces(s) ==
    LET kept == TakeIdx(s, {i \in 1..Len(s) : ~IsSpace(s[i]) \/ i = 1 \/ ~IsSpace(s[i - 1])})
    IN  [i \in 1..Len(kept) |-> IF IsSpace(kept[i]) THEN " " ELSE kept[i]]

\* a normalisation that leaves the em dash alone
NormalizeText_NoEm(s) ==
    LET s1 == [i \in 1..Len(s) |-> IF s[i] = EN_DASH THEN "-" ELSE s[i]]
        s2 == Concat([i \in 1..Len(s1) |-> IF s1[i] = "-" THEN <<" ", "-", " ">> ELSE <<s1[i]>>])
    IN  Strip(CollapseSpaces(s2))

\* lines 139-141 on the symbols of a text: every dash becomes "-", the
\* spaces around a dash become one space on each side, runs of spaces
\* collapse, and the ends are stripped
NormalizeText(s) ==
    LET s1 == [i \in 1..Len(s) |-> IF IsDash(s[i]) THEN "-" ELSE s[i]]
        \* \s*-\s* -> " - ": the spaces next to a dash are absorbed by the match
        s2 == Concat([i \in 1..Len(s1) |-> IF s1[i] = "-" THEN <<" ", "-", " ">> ELSE <<s1[i]>>])
    IN  Strip(CollapseSpaces(s2))

\* normalize_dash: "" for a value that is no text
normalize_dash(text) == IF ~isinstance_str(text) THEN Txt(<<>>) ELSE Txt(NormalizeText(text.v))

\* positions where " - " starts in s
DashSepAt(s) == {i \in 1..(Len(s) - 2) : s[i] = " " /\ s[i + 1] = "-" /\ s[i + 2] = " "}

\* swap_dash: "B - A" for a text of the form "A - B", else None
swap_dash(name) ==
    IF ~isinstance_str(name) THEN None
    ELSE LET name_norm == normalize_dash(name).v
         IN  IF DashSepAt(name_norm) = {} THEN None
             ELSE LET p == CHOOSE i \in DashSepAt(name_norm) : \A k \in DashSepAt(name_norm) : i <= k
                      left == SubSeq(name_norm, 1, p - 1)
                      right == SubSeq(name_norm, p + 3, Len(name_norm))
                  IN  Txt(Strip(right) \o <<" ", "-", " ">> \o Strip(left))

_decide_program_col(file_name) ==
    IF Contains(file_name, TOK_PARTNER) THEN COL_PARTNER_PROG
    ELSE IF Contains(file_name, TOK_YES) THEN COL_YES_PROG
    ELSE IF Contains(lower(file_name), "screenil") THEN COL_SCREENIL_PROG
    ELSE IF Contains(file_name, TOK_STING)
            /\ (Contains(lower(file_name), "vod") \/ Contains(file_name, "VOD"))
         THEN COL_STINGVOD_PROG
    ELSE IF Contains(file_name, TOK_STING) THEN COL_STING_PROG
    ELSE None

_decide_house_key_col(file_name) ==
    IF Contains(file_name, TOK_CELLCOM) THEN COL_CELLCOM_KEY
    ELSE IF Contains(file_name, TOK_HOT)
            /\ (Contains(file_name, TOK_SIFRIA) \/ Contains(file_name, TOK_SIFRIYA))
         THEN COL_HOT_KEY
    ELSE IF Contains(upper(file_name), "NEXT") THEN COL_NEXT_KEY
    ELSE None

\* len(str(value)) of a reference-map cell
StrLen(c) == IF isna(c) THEN 3 ELSE Len(c.v)

\* lookups built without the sort: the rows stay in db order
ByNameLenDesc_Unsorted(db) == [r \in 1..Len(db) |-> r]

\* the positions of db rows sorted by falling name_len, equal lengths in
\* db order (sort_values(ascending=False) on fewer than 16 rows)
ByNameLenDesc(db) ==
    LET Before(a, b) == StrLen(db[a].platform) > StrLen(db[b].platform)
                        \/ (StrLen(db[a].platform) = StrLen(db[b].platform) /\ a < b)
    IN  [r \in 1..Len(db) |->
            CHOOSE a \in 1..Len(db) : Cardinality({b \in 1..Len(db) : Before(b, a)}) = r - 1]

\* lines 200-210: db_name_groups, one row per norm_name, longest vendor name first
db_name_groups(db) ==
    LET order == ByNameLenDesc(db)
        sorted == [r \in 1..Len(db) |->
                      [norm_name |-> normalize_dash(db[order[r]].keshet),
                       HOUSE_NUMBER |-> db[order[r]].HOUSE_NUMBER,
                       platform |-> db[order[r]].platform]]
    IN  TakeIdx(sorted, {r \in 1..Len(db) :
                            \A q \in 1..(r - 1) : sorted[q].norm_name # sorted[r].norm_name})

\* Series.map(name_to_house): NaN for a key that is not in the index
name_to_house(groups, key) ==
    IF \E r \in 1..Len(groups) : groups[r].norm_name = key
    THEN groups[CHOOSE r \in 1..Len(groups) : groups[r].norm_name = key].HOUSE_NUMBER
    ELSE NaN

\* lines 245-249 and 256-261: HOUSE_NUMBER of the first db row whose
\* canonical name equals the value, NaN when there is none
MergeByKeshet(db, value) ==
    LET hit == {a \in 1..Len(db) : notna(db[a].keshet) /\ db[a].keshet = value}
    IN  IF hit = {} THEN NaN
        ELSE db[CHOOSE a \in hit : \A b \in hit : a <= b].HOUSE_NUMBER

\* lines 250-254 and 262-267: the same on the vendor display name
MergeByPlatform(db, value) ==
    LET hit == {a \in 1..Len(db) : notna(db[a].platform) /\ db[a].platform = value}
    IN  IF hit = {} THEN NaN
        ELSE db[CHOOSE a \in hit : \A b \in hit : a <= b].HOUSE_NUMBER

\* Series.combine_first
combine_first(a, b) == IF notna(a) THEN a ELSE b

\* lines 276-287: the dash-swapped fallback for a row left without a match
SwappedHouse(groups, value) ==
    LET swapped_key == swap_dash(value)
        norm_swapped == IF isinstance_str(swapped_key) THEN normalize_dash(swapped_key)
                        ELSE Txt(<<>>)
    IN  name_to_house(groups, norm_swapped)

\* the HOUSE_NUMBER the name-based branch gives to a program value
HouseForProgram(db, groups, value) ==
    LET joined == combine_first(MergeByKeshet(db, value), MergeByPlatform(db, value))
    IN  IF isna(joined) /\ notna(SwappedHouse(groups, value))
        THEN SwappedHouse(groups, value)
        ELSE joined

\* lines 234-297: the name-based branch
MapByProgram(df, program_col, db, groups) ==
    IF ~HasCol(df, program_col) THEN df
    ELSE LET prog == Column(df, program_col)
             merged == [i \in 1..Len(df.rows) |->
                           Append(df.rows[i], HouseForProgram(db, groups, prog[i]))]
         IN  Frame(Append(df.columns, COL_HOUSE_NUMBER), drop_duplicates(merged))

\* lines 300-323: the house-key branch; the left join repeats a row once per
\* db row with its key, the db columns are dropped, and duplicates collapse
MapByHouseKey(df, house_key_col, db) ==
    IF ~HasCol(df, house_key_col) THEN df
    ELSE LET key == Column(df, house_key_col)
             copies(i) == LET n == Cardinality({a \in 1..Len(db) : db[a].HOUSE_NUMBER = key[i]})
                          IN  [c \in 1..(IF n = 0 THEN 1 ELSE n) |-> df.rows[i]]
             merged == Concat([i \in 1..Len(df.rows) |-> copies(i)])
         IN  Frame(df.columns, drop_duplicates(merged))

\* a filter that lets only .xlsx through
IsMappable_XlsxOnly(cleaned_name) == endswith(lower(cleaned_name), ".xlsx")

\* lines 222-223: only cleaned Excel files are mapped
IsMappable(cleaned_name) ==
    endswith(lower(cleaned_name), ".xlsx") \/ endswith(lower(cleaned_name), ".xls")

\* line 231
MappedName(cleaned_name) == <<PFX_MAPPED>> \o cleaned_name

\* lines 225-329: the reconciled document of one cleaned document
MapOne(cleaned_name, cleaned_bytes, db, groups) ==
    LET df == StripColumns(read_excel(cleaned_bytes))
        program_col == _decide_program_col(cleaned_name)
        house_key_col == _decide_house_key_col(cleaned_name)
    IN  IF program_col # None THEN to_excel(MapByProgram(df, program_col, db, groups))
        ELSE IF house_key_col # None THEN to_excel(MapByHouseKey(df, house_key_col, db))
        ELSE to_excel(df)

-----------------------------------------------------------------------------
(* Stage 3: the Populator *)

HEADER_ROW == 4

COL_CELLCOM_PROG == Txt(<<"שם פריט">>)

COL_HOT_PROG == Txt(<<"שם כותר">>)

COL_NEXT_PROG == Txt(<<"שם כותר NP">>)

COL_PARTNER_VIEWERS == Txt(<<"סה\"כ צפיות">>)

COL_ORDERS == Txt(<<"כמות הזמנות">>)

COL_SESSIONS == Txt(<<"Sessions">>)

COL_STING_VIEWERS == Txt(<<"כמות צופים">>)

COL_HOT_VIEWERS == Txt(<<"סהכ הזמנות VOD">>)

\* the four required labels of the template's header row
template_prog_col_name == <<"שם תוכנית בפלטפורמה">>

template_house_col_name == <<"מספר האוס בקשת TV">>

template_viewers_col_name == <<"כמות צפיות">>

template_date_col_name == <<"תאריך">>

required ==
    <<template_prog_col_name, template_house_col_name,
      template_viewers_col_name, template_date_col_name>>

\* previous_month_str: "MM/YYYY" of the month before (year, month)
previous_month_str(year, month) ==
    LET m == IF month - 1 = 0 THEN 12 ELSE month - 1
        y == IF month - 1 = 0 THEN year - 1 ELSE year
    IN  Txt(<<(IF m < 10 THEN "0" ELSE "") \o ToString(m), "/", ToString(y)>>)

\* the clock read by previous_month_str when no month is given
Today == [year |-> 2026, month |-> 1]

\* line 428: prev_month or previous_month_str()
PrevMonthVal(prev_month) ==
    IF prev_month = None \/ prev_month.v = <<>>
    THEN previous_month_str(Today.year, Today.month)
    ELSE prev_month

_decide_template_program_col(file_name) ==
    IF Contains(file_name, TOK_PARTNER) THEN COL_PARTNER_PROG
    ELSE IF Contains(file_name, TOK_YES) THEN COL_YES_PROG
    ELSE IF Contains(lower(file_name), "screenil") THEN COL_SCREENIL_PROG
    ELSE IF Contains(file_name, TOK_STING)
            /\ (Contains(lower(file_name), "vod") \/ Contains(file_name, "VOD"))
         THEN COL_STINGVOD_PROG
    ELSE IF Contains(file_name, TOK_STING) THEN COL_STING_PROG
    ELSE IF Contains(file_name, TOK_CELLCOM) THEN COL_CELLCOM_PROG
    ELSE IF Contains(file_name, TOK_HOT)
            /\ (Contains(file_name, TOK_SIFRIA) \/ Contains(file_name, TOK_SIFRIYA))
         THEN COL_HOT_PROG
    ELSE IF Contains(upper(file_name), "NEXT") THEN COL_NEXT_PROG
    ELSE None

_decide_mapped_house_col(file_name) ==
    IF Contains(file_name, TOK_CELLCOM) THEN COL_CELLCOM_KEY
    ELSE IF Contains(file_name, TOK_HOT)
            /\ (Contains(file_name, TOK_SIFRIA) \/ Contains(file_name, TOK_SIFRIYA))
         THEN COL_HOT_KEY
    ELSE IF Contains(upper(file_name), "NEXT") THEN COL_NEXT_KEY
    ELSE COL_HOUSE_NUMBER

_decide_viewers_col(file_name) ==
    IF Contains(file_name, TOK_PARTNER) THEN COL_PARTNER_VIEWERS
    ELSE IF Contains(file_name, TOK_YES) THEN COL_ORDERS
    ELSE IF Contains(lower(file_name), "screenil") THEN COL_SESSIONS
    ELSE IF Contains(file_name, TOK_STING)
            /\ (Contains(lower(file_name), "vod") \/ Contains(file_name, "VOD"))
         THEN COL_STING_VIEWERS
    ELSE IF Contains(file_name, TOK_STING) THEN COL_STING_VIEWERS
    ELSE IF Contains(file_name, TOK_CELLCOM) THEN COL_ORDERS
    ELSE IF Contains(file_name, TOK_HOT)
            /\ (Contains(file_name, TOK_SIFRIA) \/ Contains(file_name, TOK_SIFRIYA))
         THEN COL_HOT_VIEWERS
    ELSE IF Contains(upper(file_name), "NEXT") THEN COL_ORDERS
    ELSE None

_decide_platform_label(file_name) ==
    IF Contains(file_name, TOK_PARTNER) THEN Txt(<<TOK_PARTNER>>)
    ELSE IF Contains(file_name, TOK_YES) THEN Txt(<<"YES">>)
    ELSE IF Contains(lower(file_name), "screenil") THEN Txt(<<"ScreenIL">>)
    ELSE IF Contains(file_name, TOK_STING)
            /\ (Contains(lower(file_name), "vod") \/ Contains(file_name, "VOD"))
         THEN Txt(<<"YES">>)
    ELSE IF Contains(file_name, TOK_STING) THEN Txt(<<"YES">>)
    ELSE IF Contains(file_name, TOK_CELLCOM) THEN Txt(<<TOK_CELLCOM>>)
    ELSE IF Contains(file_name, TOK_HOT)
            /\ (Contains(file_name, TOK_SIFRIA) \/ Contains(file_name, TOK_SIFRIYA))
         THEN Txt(<<"HOT">>)
    ELSE IF Contains(upper(file_name), "NEXT") THEN Txt(<<"NEXT">>)
    ELSE None

\* lines 431-432: only Excel names are populated
IsFillable(mapped_name) ==
    endswith(lower(mapped_name), ".xlsx") \/ endswith(lower(mapped_name), ".xls")

\* lines 437-443: both name-resolved roles are present
RolesResolved(mapped_name) ==
    /\ _decide_template_program_col(mapped_name) # None
    /\ _decide_viewers_col(mapped_name) # None

\* column checks that forget the house identifier column
ColumnsPresent_NoHouse(mapped_name, mapped_df) ==
    /\ HasCol(mapped_df, _decide_template_program_col(mapped_name))
    /\ HasCol(mapped_df, _decide_viewers_col(mapped_name))

\* lines 449-454: the three resolved columns exist in the table
ColumnsPresent(mapped_name, mapped_df) ==
    /\ HasCol(mapped_df, _decide_template_program_col(mapped_name))
    /\ HasCol(mapped_df, _decide_mapped_house_col(mapped_name))
    /\ HasCol(mapped_df, _decide_viewers_col(mapped_name))

\* no workbook loaded yet
NoWb == [B1 |-> NaN, B2 |-> NaN, Q |-> <<>>, P |-> <<>>, header |-> <<>>, data |-> <<>>]

\* a workbook loaded once and reused for every file
load_workbook_Reused(bytes) == IF wb = NoWb THEN bytes ELSE wb

\* line 457: a workbook object parsed from the template bytes
load_workbook(bytes) == bytes

\* str(value) of a Python object that may be None
PyStr(c) == IF c = None THEN Txt(<<"None">>) ELSE str(c)

\* truth value of a cell value: None, "" and 0 are false
Truthy(c) == notna(c) /\ c.v # <<>> /\ ~(c.t = "num" /\ c.v = <<"0">>)

YELLOW == "FFFF00"

\* lines 461-463
SetMeta(ws, month, platform) ==
    [ws EXCEPT !.B1 = month, !.B2 = IF platform # None THEN platform ELSE @]

\* lines 468-471: Q5:Q9
HighlightPlatform(ws, platform) ==
    [ws EXCEPT !.Q = [i \in 1..Len(ws.Q) |->
        IF Truthy(ws.Q[i].value) /\ Strip(PyStr(ws.Q[i].value).v) = Strip(PyStr(platform).v)
        THEN [ws.Q[i] EXCEPT !.fill = YELLOW] ELSE ws.Q[i]]]

\* lines 474-480: P5:P16
HighlightMonth(ws, month) ==
    [ws EXCEPT !.P = [i \in 1..Len(ws.P) |->
        IF Truthy(ws.P[i].value) /\ Strip(PyStr(ws.P[i].value).v) = month.v
        THEN [ws.P[i] EXCEPT !.fill = YELLOW] ELSE ws.P[i]]]

\* lines 483-488: header_map[label], 0 when the label is no key; a label
\* met twice keeps its last column
HeaderCol(ws, label) ==
    LET hit == {j \in 1..Len(ws.header) :
                   notna(ws.header[j]) /\ Strip(str(ws.header[j]).v) = label}
    IN  IF hit = {} THEN 0 ELSE CHOOSE j \in hit : \A k \in hit : j >= k

\* a header check that forgets the date label
HeaderComplete_NoDate(ws) == \A r \in 1..(Len(required) - 1) : HeaderCol(ws, required[r]) # 0

\* line 501 negated: every required label is in header_map
HeaderComplete(ws) == \A r \in 1..Len(required) : HeaderCol(ws, required[r]) # 0

\* a skip test that drops a row as soon as one field is empty
SkipRow_Any(prog, house, viewers) == isna(prog) \/ isna(house) \/ isna(viewers)

\* line 517
SkipRow(prog, house, viewers) == isna(prog) /\ isna(house) /\ isna(viewers)

\* ws.cell(row, column, value) on the data region; data[r] is sheet row HEADER_ROW + r
SetCell(data, row, column, value) ==
    LET r == row - HEADER_ROW
        width == IF Len(data) = 0 THEN column
                 ELSE IF Len(data[1]) > column THEN Len(data[1]) ELSE column
        blank == [j \in 1..width |-> NaN]
        widen(x) == [j \in 1..width |-> IF j <= Len(x) THEN x[j] ELSE NaN]
        len == IF Len(data) > r THEN Len(data) ELSE r
    IN  [q \in 1..len |->
            IF q = r THEN [widen(IF q <= Len(data) THEN data[q] ELSE blank) EXCEPT ![column] = value]
            ELSE IF q <= Len(data) THEN widen(data[q]) ELSE blank]

\* lines 520-523: the four cells of one written row
WriteRow(ws, data, row_idx, prog, house, viewers, month) ==
    LET d1 == SetCell(data, row_idx, HeaderCol(ws, template_prog_col_name), str(prog))
        d2 == SetCell(d1, row_idx, HeaderCol(ws, template_house_col_name), house)
        d3 == SetCell(d2, row_idx, HeaderCol(ws, template_viewers_col_name), viewers)
    IN  SetCell(d3, row_idx, HeaderCol(ws, template_date_col_name), month)

\* line 524
NextRowIdx(row_idx) == row_idx + 1

\* lines 509-524: the row loop
FillRows(ws, mapped_name, mapped_df, month) ==
    LET prog_values == Column(mapped_df, _decide_template_program_col(mapped_name))
        house_values == Column(mapped_df, _decide_mapped_house_col(mapped_name))
        viewers_values == Column(mapped_df, _decide_viewers_col(mapped_name))
        F[n \in 0..Len(mapped_df.rows)] ==
            IF n = 0 THEN [data |-> ws.data, row_idx |-> HEADER_ROW + 1]
            ELSE LET prev == F[n - 1]
                 IN  IF SkipRow(prog_values[n], house_values[n], viewers_values[n])
                     THEN prev
                     ELSE [data |-> WriteRow(ws, prev.data, prev.row_idx,
                                             prog_values[n], house_values[n],
                                             viewers_values[n], month),
                           row_idx |-> NextRowIdx(prev.row_idx)]
    IN  [ws EXCEPT !.data = F[Len(mapped_df.rows)].data]

\* lines 437-454: the file passes the gates placed before the template is loaded
PassesGates(mapped_name, mapped_df) ==
    /\ RolesResolved(mapped_name)
    /\ ColumnsPresent(mapped_name, mapped_df)

\* lines 504-507 and 511-513: a dict or frame lookup of a missing key raises KeyError
FillKeyError(ws, mapped_name, mapped_df) ==
    \/ \E r \in 1..Len(required) : HeaderCol(ws, required[r]) = 0
    \/ ~HasCol(mapped_df, _decide_template_program_col(mapped_name))
    \/ ~HasCol(mapped_df, _decide_mapped_house_col(mapped_name))
    \/ ~HasCol(mapped_df, _decide_viewers_col(mapped_name))

\* lines 460-480: the loaded workbook with metadata and highlights set
Decorate(ws, mapped_name, month) ==
    HighlightMonth(
        HighlightPlatform(SetMeta(ws, month, _decide_platform_label(mapped_name)),
                          _decide_platform_label(mapped_name)),
        month)

\* line 526
TemplateName(mapped_name) == <<PFX_TEMPLATE>> \o mapped_name

-----------------------------------------------------------------------------
(* Orchestrator: the archive and the summary *)

\* an archive that leaves the reconciled documents out
ZipNames_NoMapped(t, c, m, include) ==
    LET keys(d) == [i \in 1..Len(d) |-> d[i].k]
    IN  keys(t) \o (IF include THEN keys(c) ELSE <<>>)

\* lines 558-565: the names written to the archive, in order
ZipNames(t, c, m, include) ==
    LET keys(d) == [i \in 1..Len(d) |-> d[i].k]
    IN  keys(t) \o (IF include THEN keys(c) \o keys(m) ELSE <<>>)

\* lines 569-573
Summary(c, m, t) == [cleaned |-> Len(c), mapped |-> Len(m), templated |-> Len(t)]

-----------------------------------------------------------------------------
(* Inputs *)

MaxFiles == 2

MaxDataRows == 17

MaxTableRows == 2

X == Txt(<<"x">>)

\* a reference map: rows 2 and 3 share a canonical name, rows 1 and 4 a HOUSE_NUMBER
DbRows ==
    <<[HOUSE_NUMBER |-> Num(1), keshet |-> Txt(<<"A">>), platform |-> Txt(<<"A", "p">>)],
      [HOUSE_NUMBER |-> Num(2), keshet |-> Txt(<<"A", " ", "-", " ", "B">>),
       platform |-> Txt(<<"Q">>)],
      [HOUSE_NUMBER |-> Num(3), keshet |-> Txt(<<"A", " ", "-", " ", "B">>),
       platform |-> Txt(<<"Q", "l", "o", "n", "g">>)],
      [HOUSE_NUMBER |-> Num(1), keshet |-> Txt(<<"C">>), platform |-> Txt(<<"C", "p">>)]>>

\* an export in the layout of the name-keyed vendors: program, viewers, four more columns
PartnerHeader ==
    <<COL_PARTNER_PROG, COL_PARTNER_VIEWERS, Txt(<<"c", "1">>), Txt(<<"c", "2">>),
      Txt(<<"c", "3">>), Txt(<<"c", "4">>)>>

\* data row i: a canonical name, a dash-swapped name, an unknown name, a
\* vendor display name, or a row empty in program and viewers
PartnerRow(i) ==
    CASE i % 5 = 1 -> <<Txt(<<"A">>), Num(i), Num(i), X, X, X>>
      [] i % 5 = 2 -> <<Txt(<<"B", EM_DASH, "A">>), Num(i), Num(i), X, X, X>>
      [] i % 5 = 3 -> <<Txt(<<"Z">>), Num(i), Num(i), X, X, NaN>>
      [] i % 5 = 4 -> <<Txt(<<"C", "p">>), NaN, Num(i), X, X, X>>
      [] OTHER -> <<NaN, NaN, Num(i), X, X, X>>

\* an export in the layout of a house-key vendor: key, program, viewers, one more column
CellcomHeader == <<COL_CELLCOM_KEY, COL_CELLCOM_PROG, COL_ORDERS, Txt(<<"c", "1">>)>>

CellcomRow(i) == <<Num(i % 4), Txt(<<"P">>), Num(i), X>>

TitleRow(width) == [j \in 1..width |-> IF j = 1 THEN Txt(<<"t">>) ELSE NaN]

BlankRow(width) == [j \in 1..width |-> NaN]

PreKinds == {"none", "gap", "title"}

\* the rows above the header: none, a title and a blank row, or a title alone
Preamble(pre, width) ==
    CASE pre = "none" -> <<>>
      [] pre = "gap" -> <<TitleRow(width), BlankRow(width)>>
      [] OTHER -> <<TitleRow(width)>>

\* a raw sheet: a preamble, the header row and n data rows
PartnerGrid(pre, n) ==
    Preamble(pre, Len(PartnerHeader)) \o <<PartnerHeader>> \o [i \in 1..n |-> PartnerRow(i)]

CellcomGrid(pre, n) ==
    Preamble(pre, Len(CellcomHeader)) \o <<CellcomHeader>> \o [i \in 1..n |-> CellcomRow(i)]

Sheet(name, grid) == [name |-> name, grid |-> grid]

File(name, ok, sheets, csv) == [name |-> name, ok |-> ok, sheets |-> sheets, csv |-> csv]

Catalog ==
    { File(<<TOK_PARTNER, ".xlsx">>, TRUE,
           <<Sheet(<<"a", "/", "b">>, PartnerGrid("gap", 16)),
             Sheet(<<"a", "_", "b">>, PartnerGrid("none", 17))>>, <<>>),
      File(<<TOK_PARTNER, "2", ".XLSX">>, TRUE,
           <<Sheet(<<"S", "1">>, PartnerGrid("gap", 15)),
             Sheet(<<"S", "2">>, PartnerGrid("title", 17)),
             Sheet(<<"S", "3">>, PartnerGrid("none", 3))>>, <<>>),
      File(<<TOK_CELLCOM, ".xls">>, TRUE,
           <<Sheet(<<"S", "1">>, CellcomGrid("gap", 16))>>, <<>>),
      File(<<TOK_YES, ".csv">>, TRUE, <<>>,
           <<PartnerHeader, PartnerRow(1), BlankRow(6), PartnerRow(2)>>),
      File(<<"bad", ".xlsx">>, FALSE, <<>>, <<>>),
      File(<<"notes", ".txt">>, TRUE, <<>>, <<>>) }

FileLists == UNION {[1..n -> Catalog] : n \in 0..MaxFiles}

\* files given to clean_input_files_to_excels alone: one sheet or one CSV body of every size
CleanInputs ==
    {<<File(<<TOK_PARTNER, ".xlsx">>, TRUE, <<Sheet(<<"S", "1">>, PartnerGrid(pre, n))>>, <<>>)>> :
        pre \in PreKinds, n \in 0..MaxDataRows}
    \cup {<<File(<<TOK_CELLCOM, ".xls">>, TRUE, <<Sheet(<<"S", "1">>, CellcomGrid(pre, n))>>, <<>>)>> :
        pre \in PreKinds, n \in 0..MaxDataRows}
    \cup {<<File(<<TOK_YES, ".csv">>, TRUE, <<>>, <<PartnerHeader>> \o [i \in 1..n |-> PartnerRow(i)])>> :
        n \in 0..MaxDataRows}

LegendCell(value) == [value |-> value, fill |-> "none"]

Months == {Txt(<<"10/2026">>), None}

\* the template sheet: B1, B2, legend Q5:Q9, legend P5:P16, header row 4, rows 5..
Template(header, data) ==
    [B1 |-> NaN, B2 |-> Txt(<<"platform">>),
     Q |-> <<LegendCell(Txt(<<TOK_PARTNER>>)), LegendCell(Txt(<<"YES">>)),
             LegendCell(Txt(<<" ", TOK_CELLCOM>>)), LegendCell(Txt(<<"HOT">>)),
             LegendCell(NaN)>>,
     P |-> [i \in 1..12 |->
              IF i = 1 THEN LegendCell(Txt(<<"10/2026">>))
              ELSE IF i = 2 THEN LegendCell(Txt(<<"12", "/", "2025">>))
              ELSE LegendCell(NaN)],
     header |-> header,
     data |-> data]

FullHeader ==
    <<Txt(template_prog_col_name), Txt(template_house_col_name \o <<" ">>),
      Txt(template_viewers_col_name), Txt(template_date_col_name), Txt(<<"notes">>)>>

SampleRow == <<Txt(<<"sample">>), Num(0), Num(0), Txt(<<"01/2000">>), X>>

\* templates: empty data region, three sample rows left in it, no date label
Templates ==
    { Template(FullHeader, <<>>),
      Template(FullHeader, <<SampleRow, SampleRow, SampleRow>>),
      Template(SubSeq(FullHeader, 1, 3) \o <<NaN, Txt(<<"notes">>)>>, <<>>) }

\* the templates and the month given to whole runs
RunTemplates == {t \in Templates : t.data # <<>> \/ ~HeaderComplete(t)}

RunMonths == {Txt(<<"10/2026">>)}

\* reconciled tables given to fill_template_files alone
KeyRows == {<<p, h, w>> : p \in {NaN, Txt(<<"A">>)}, h \in {NaN, Num(7)}, w \in {NaN, Num(5)}}

TableRows == UNION {[1..n -> KeyRows] : n \in 0..MaxTableRows}

Doc(name, columns, rows) ==
    [k |-> name, v |-> to_excel(Frame(columns, rows))]

PartnerCols == <<COL_PARTNER_PROG, COL_HOUSE_NUMBER, COL_PARTNER_VIEWERS>>

SmallDocs ==
    {Doc(<<PFX_MAPPED, PFX_CLEANED, TOK_PARTNER, "_", "S", ".xlsx">>, PartnerCols, rows) :
        rows \in TableRows}
    \cup {Doc(<<PFX_MAPPED, PFX_CLEANED, TOK_PARTNER, "_", "S", ".xlsx">>,
              [PartnerCols EXCEPT ![j] = Txt(<<"other">>)], <<<<X, X, X>>>>) : j \in 1..3}
    \cup {Doc(<<PFX_MAPPED, PFX_CLEANED, "r", "_", "S", ".xlsx">>, PartnerCols, <<<<X, X, X>>>>),
          Doc(<<PFX_MAPPED, PFX_CLEANED, TOK_HOT, "_", "S", ".xlsx">>, PartnerCols, <<<<X, X, X>>>>),
          Doc(<<PFX_MAPPED, PFX_CLEANED, TOK_PARTNER, ".csv">>, PartnerCols, <<<<X, X, X>>>>)}

FirstDocs ==
    {Doc(<<PFX_MAPPED, PFX_CLEANED, TOK_CELLCOM, "_", "S", ".xls">>,
         <<COL_CELLCOM_KEY, COL_CELLCOM_PROG, COL_ORDERS>>,
         <<<<Num(1), Txt(<<"P">>), Num(5)>>, <<Num(2), NaN, NaN>>, <<NaN, NaN, NaN>>,
           <<Num(4), Txt(<<"R">>), Num(6)>>>>)}

FillInputs == {<<d>> : d \in SmallDocs} \cup {<<f, d>> : f \in FirstDocs, d \in SmallDocs}

NoSummary == [cleaned |-> 0 - 1, mapped |-> 0 - 1, templated |-> 0 - 1]

-----------------------------------------------------------------------------
(* The calls *)

RUN == "run_pipeline_and_zip"

CLEAN == "clean_input_files_to_excels"

FILL == "fill_template_files"

InitCommon ==
    /\ err = "none"
    /\ db_excel_bytes = DbRows
    /\ idx = 1
    /\ templated = <<>>
    /\ db_lookups = <<>>
    /\ wb = NoWb
    /\ emit_log = <<>>
    /\ zip_names = <<>>
    /\ summary = NoSummary
    /\ arg = <<>>
    /\ ret = <<>>

\* run_pipeline_and_zip(platform_files, db, template, include_intermediate, month_str)
InitRun ==
    /\ entry = RUN
    /\ pc = "clean"
    /\ platform_files \in FileLists
    /\ template_excel_bytes \in RunTemplates
    /\ include_intermediate \in BOOLEAN
    /\ month_str \in RunMonths
    /\ cleaned = <<>>
    /\ mapped = <<>>
    /\ InitCommon

\* clean_input_files_to_excels(uploaded_files)
InitClean ==
    /\ entry = CLEAN
    /\ pc = "clean"
    /\ platform_files \in CleanInputs
    /\ template_excel_bytes = NoWb
    /\ include_intermediate = FALSE
    /\ month_str = None
    /\ cleaned = <<>>
    /\ mapped = <<>>
    /\ InitCommon

\* fill_template_files(mapped_excels, template_excel_bytes, prev_month)
InitFill ==
    /\ entry = FILL
    /\ pc = "fill"
    /\ platform_files = <<>>
    /\ template_excel_bytes \in Templates
    /\ include_intermediate = FALSE
    /\ month_str \in Months
    /\ cleaned = <<>>
    /\ mapped \in FillInputs
    /\ InitCommon

Init == InitRun \/ InitClean \/ InitFill

\* lines 82-128, one uploaded file that reads
CleanFile ==
    /\ pc = "clean"
    /\ idx <= Len(platform_files)
    /\ ~ReadRaises(platform_files[idx])
    /\ LET outs == FileOutputs(platform_files[idx])
       IN  /\ cleaned' = DictSetAll(cleaned, outs)
           /\ emit_log' = emit_log \o
                [j \in 1..Len(outs) |->
                    [file |-> idx, sheet |-> outs[j].sheet, name |-> outs[j].name]]
    /\ idx' = idx + 1
    /\ UNCHANGED <<arg, ret, entry, pc, err, platform_files, db_excel_bytes, template_excel_bytes,
                   include_intermediate, month_str, mapped, templated, db_lookups, wb,
                   zip_names, summary>>

\* lines 87 and 116: the read raises and nothing catches it
CleanRaise ==
    /\ pc = "clean"
    /\ idx <= Len(platform_files)
    /\ ReadRaises(platform_files[idx])
    /\ pc' = "error"
    /\ err' = "read_error"
    /\ UNCHANGED <<arg, ret, entry, platform_files, db_excel_bytes, template_excel_bytes,
                   include_intermediate, month_str, cleaned, mapped, templated, idx,
                   db_lookups, wb, emit_log, zip_names, summary>>

\* line 130
CleanReturn ==
    /\ pc = "clean"
    /\ idx > Len(platform_files)
    /\ pc' = IF entry = RUN THEN "map_init" ELSE "done"
    /\ idx' = 1
    /\ UNCHANGED <<arg, ret, entry, err, platform_files, db_excel_bytes, template_excel_bytes,
                   include_intermediate, month_str, cleaned, mapped, templated,
                   db_lookups, wb, emit_log, zip_names, summary>>

\* lines 194-218
MapInit ==
    /\ pc = "map_init"
    /\ db_lookups' = db_name_groups(db_excel_bytes)
    /\ pc' = "map"
    /\ UNCHANGED <<arg, ret, entry, err, platform_files, db_excel_bytes, template_excel_bytes,
                   include_intermediate, month_str, cleaned, mapped, templated, idx,
                   wb, emit_log, zip_names, summary>>

\* lines 220-329, one cleaned document
MapFile ==
    /\ pc = "map"
    /\ idx <= Len(cleaned)
    /\ mapped' = IF IsMappable(cleaned[idx].k)
                 THEN DictSet(mapped, MappedName(cleaned[idx].k),
                              MapOne(cleaned[idx].k, cleaned[idx].v, db_excel_bytes, db_lookups))
                 ELSE mapped
    /\ idx' = idx + 1
    /\ UNCHANGED <<arg, ret, entry, pc, err, platform_files, db_excel_bytes, template_excel_bytes,
                   include_intermediate, month_str, cleaned, templated, db_lookups, wb,
                   emit_log, zip_names, summary>>

\* line 331
MapReturn ==
    /\ pc = "map"
    /\ idx > Len(cleaned)
    /\ pc' = IF entry = RUN THEN "fill" ELSE "done"
    /\ idx' = 1
    /\ UNCHANGED <<arg, ret, entry, err, platform_files, db_excel_bytes, template_excel_bytes,
                   include_intermediate, month_str, cleaned, mapped, templated,
                   db_lookups, wb, emit_log, zip_names, summary>>

\* lines 430-530, one reconciled document
FillFile ==
    /\ pc = "fill"
    /\ idx <= Len(mapped)
    /\ LET mapped_name == mapped[idx].k
           mapped_df == StripColumns(read_excel(mapped[idx].v))
           month == PrevMonthVal(month_str)
           ws == Decorate(load_workbook(template_excel_bytes), mapped_name, month)
       IN  IF ~IsFillable(mapped_name) \/ ~PassesGates(mapped_name, mapped_df)
           THEN /\ idx' = idx + 1
                /\ UNCHANGED <<pc, err, wb, templated>>
           ELSE IF ~HeaderComplete(ws)
           THEN /\ idx' = idx + 1
                /\ wb' = ws
                /\ UNCHANGED <<pc, err, templated>>
           ELSE IF FillKeyError(ws, mapped_name, mapped_df)
           THEN /\ pc' = "error"
                /\ err' = "KeyError"
                /\ wb' = ws
                /\ UNCHANGED <<idx, templated>>
           ELSE /\ idx' = idx + 1
                /\ wb' = FillRows(ws, mapped_name, mapped_df, month)
                /\ templated' = DictSet(templated, TemplateName(mapped_name), wb')
                /\ UNCHANGED <<pc, err>>
    /\ UNCHANGED <<arg, ret, entry, platform_files, db_excel_bytes, template_excel_bytes,
                   include_intermediate, month_str, cleaned, mapped, db_lookups,
                   emit_log, zip_names, summary>>

\* line 532
FillReturn ==
    /\ pc = "fill"
    /\ idx > Len(mapped)
    /\ pc' = IF entry = RUN THEN "zip" ELSE "done"
    /\ idx' = 1
    /\ UNCHANGED <<arg, ret, entry, err, platform_files, db_excel_bytes, template_excel_bytes,
                   include_intermediate, month_str, cleaned, mapped, templated,
                   db_lookups, wb, emit_log, zip_names, summary>>

\* lines 555-575
Zip ==
    /\ pc = "zip"
    /\ zip_names' = ZipNames(templated, cleaned, mapped, include_intermediate)
    /\ summary' = Summary(cleaned, mapped, templated)
    /\ pc' = "done"
    /\ UNCHANGED <<arg, ret, entry, err, platform_files, db_excel_bytes, template_excel_bytes,
                   include_intermediate, month_str, cleaned, mapped, templated, idx,
                   db_lookups, wb, emit_log>>

Next ==
    \/ CleanFile
    \/ CleanRaise
    \/ CleanReturn
    \/ MapInit
    \/ MapFile
    \/ MapReturn
    \/ FillFile
    \/ FillReturn
    \/ Zip

Spec == Init /\ [][Next]_vars

-----------------------------------------------------------------------------
(* Properties *)

\* uploaded file f has been through the Extractor's loop
Extracted(f) ==
    IF pc = "clean" \/ (pc = "error" /\ err = "read_error") THEN f < idx ELSE TRUE

\* the Extractor assigned an output for sheet j of uploaded file f
Logged(f, j) == \E a \in 1..Len(emit_log) : emit_log[a].file = f /\ emit_log[a].sheet = j

\* reconciled document i has been through the Populator's loop
Populated(i) ==
    \/ pc = "fill" /\ i < idx
    \/ pc \in {"zip", "done"}

IsExcelText(name) == Len(name) > 0 /\ LowerSym(name[Len(name)]) \in {".xlsx", ".xls"}

\* C1: a run over several files in which one upload has unreadable bytes does
\* not abort: it never ends in the read error.
C1_ReadErrorConfined ==
    (/\ entry = RUN
     /\ \E f \in 1..Len(platform_files) : ReadRaises(platform_files[f])
     /\ \E f \in 1..Len(platform_files) :
           platform_files[f].ok /\ IsExcelText(platform_files[f].name))
        => ~(pc = "error" /\ err = "read_error")

\* the template's header row lacks one of the four required labels
LacksRequiredLabel(t) ==
    \E label \in {template_prog_col_name, template_house_col_name,
                  template_viewers_col_name, template_date_col_name} :
        \A j \in 1..Len(t.header) : isna(t.header[j]) \/ Strip(t.header[j].v) # label

\* a reconciled document reaches the header check of the Populator
ReachesHeaderCheck(i) ==
    /\ IsExcelText(mapped[i].k)
    /\ PassesGates(mapped[i].k, StripColumns(read_excel(mapped[i].v)))

\* C2 as stated: with a template lacking a required header label the run
\* aborts, so it never completes.
C2_AbortsOnMissingLabel ==
    ~(/\ entry = RUN
      /\ pc = "done"
      /\ LacksRequiredLabel(template_excel_bytes)
      /\ \E i \in 1..Len(mapped) : ReachesHeaderCheck(i))

\* C2 amended: with a template lacking a required header label no error is
\* raised for it; every reconciled file is skipped, so no document is
\* populated and a completed run reports zero populated documents.
C2_SkipsOnMissingLabel ==
    LacksRequiredLabel(template_excel_bytes) =>
        /\ templated = <<>>
        /\ err # "KeyError"
        /\ (entry = FILL => pc # "error")
        /\ (entry = RUN /\ pc = "done") =>
              /\ summary.templated = 0
              /\ \A i \in 1..Len(zip_names) : zip_names[i][1] # PFX_TEMPLATE

C2_Witness ==
    /\ entry = RUN
    /\ pc = "done"
    /\ LacksRequiredLabel(template_excel_bytes)
    /\ \E i \in 1..Len(mapped) : ReachesHeaderCheck(i)
    /\ summary.templated = 0

\* C3: a workbook sheet is emitted by the Extractor exactly when its cleaned
\* table has more than 15 data rows: 16 rows are emitted, 15 are discarded.
C3_SizeGateBoundary ==
    \A f \in 1..Len(platform_files) :
        (Extracted(f) /\ IsExcelText(platform_files[f].name) /\ platform_files[f].ok) =>
            \A j \in 1..Len(platform_files[f].sheets) :
                LET n == Len(CleanSheet(platform_files[f].sheets[j].grid).rows)
                    name == CleanedSheetName(platform_files[f].name,
                                             platform_files[f].sheets[j].name)
                IN  /\ Logged(f, j) <=> n > 15
                    /\ n = 16 => Logged(f, j)
                    /\ n = 15 => ~Logged(f, j)
                    /\ Logged(f, j) => DictHas(cleaned, name)
                    /\ (entry = CLEAN /\ ~Logged(f, j)) => cleaned = <<>>

C3_Witness ==
    /\ pc = "done"
    /\ \E f \in 1..Len(platform_files) : \E j \in 1..Len(platform_files[f].sheets) :
          /\ Len(CleanSheet(platform_files[f].sheets[j].grid).rows) = 16
          /\ Logged(f, j)
    /\ \E f \in 1..Len(platform_files) : \E j \in 1..Len(platform_files[f].sheets) :
          /\ Len(CleanSheet(platform_files[f].sheets[j].grid).rows) = 15
          /\ ~Logged(f, j)

\* C4 as stated: every table of the Extractor's output, from a sheet or from
\* a CSV file, has more than 15 data rows.
C4_AllOutputsAboveGate ==
    \A i \in 1..Len(cleaned) : Len(cleaned[i].v.body) > 15

\* C4 amended: every table of the Extractor's output that came from a
\* workbook sheet has more than 15 data rows; a readable CSV file always
\* contributes its entry, whatever its number of rows, holding its rows that
\* are not fully empty.
C4_SheetsAboveGateCsvKept ==
    /\ \A i \in 1..Len(cleaned) :
          cleaned[i].v.fmt = "xlsx" => Len(cleaned[i].v.body) > 15
    /\ \A f \in 1..Len(platform_files) :
          (Extracted(f) /\ LowerSym(platform_files[f].name[Len(platform_files[f].name)]) = ".csv"
              /\ platform_files[f].ok) =>
             /\ DictHas(cleaned, <<PFX_CLEANED>> \o platform_files[f].name)
             /\ DictGet(cleaned, <<PFX_CLEANED>> \o platform_files[f].name).fmt = "csv"
             /\ (Len(platform_files) = 1 =>
                    Len(cleaned[1].v.body) =
                        Cardinality({r \in 2..Len(platform_files[f].csv) :
                                        RowHasData(platform_files[f].csv[r])}))

C4_Witness ==
    /\ pc = "done"
    /\ \E i \in 1..Len(cleaned) : cleaned[i].v.fmt = "csv" /\ Len(cleaned[i].v.body) < 16
    /\ \E i \in 1..Len(cleaned) : cleaned[i].v.fmt = "xlsx"

\* C5: two emitted inputs with different (file name, sheet name) identities
\* never get the same cleaned_ name.
C5_NamesCollisionFree ==
    \A a, b \in 1..Len(emit_log) :
        LET fa == platform_files[emit_log[a].file]
            fb == platform_files[emit_log[b].file]
        IN  (/\ emit_log[a].sheet > 0
             /\ emit_log[b].sheet > 0
             /\ <<fa.name, fa.sheets[emit_log[a].sheet].name>>
                    # <<fb.name, fb.sheets[emit_log[b].sheet].name>>)
                => emit_log[a].name # emit_log[b].name

\* the Reconciler has returned
Reconciled == entry = RUN /\ pc \in {"fill", "zip", "done"}

\* C6 as stated: every entry of the Extractor's output has its entry in the
\* Reconciler's output, and the two counts are equal.
C6_EveryExtractedReconciled ==
    Reconciled =>
        /\ Len(mapped) = Len(cleaned)
        /\ \A i \in 1..Len(cleaned) : DictHas(mapped, <<PFX_MAPPED>> \o cleaned[i].k)

\* C6 amended: every entry of the Extractor's output that is an Excel
\* document (name ending in .xlsx or .xls) has exactly one entry in the
\* Reconciler's output, an extracted CSV has none, and the reconciled count
\* equals the number of extracted Excel documents.
C6_EveryExcelReconciled ==
    Reconciled =>
        /\ \A i \in 1..Len(cleaned) :
              DictHas(mapped, <<PFX_MAPPED>> \o cleaned[i].k) <=> IsExcelText(cleaned[i].k)
        /\ \A i \in 1..Len(mapped) :
              \E c \in 1..Len(cleaned) : mapped[i].k = <<PFX_MAPPED>> \o cleaned[c].k
        /\ \A i, k \in 1..Len(mapped) : mapped[i].k = mapped[k].k => i = k
        /\ Len(mapped) = Cardinality({i \in 1..Len(cleaned) : IsExcelText(cleaned[i].k)})

C6_Witness ==
    /\ Reconciled
    /\ pc = "done"
    /\ Len(cleaned) = 2
    /\ cleaned[1].v.fmt = "csv"
    /\ endswith(cleaned[2].k, ".XLSX")
    /\ Len(mapped) = 1

\* the table the Populator reads from reconciled document i
MappedFrame(i) == StripColumns(read_excel(mapped[i].v))

\* the program, house identifier and viewer count of every source row of document i
KeyFields(i) ==
    LET df == MappedFrame(i)
        p == ColIndex(df, _decide_template_program_col(mapped[i].k))
        h == ColIndex(df, _decide_mapped_house_col(mapped[i].k))
        w == ColIndex(df, _decide_viewers_col(mapped[i].k))
    IN  [r \in 1..Len(df.rows) |->
            [prog |-> df.rows[r][p], house |-> df.rows[r][h], viewers |-> df.rows[r][w]]]

\* the source rows of document i that are not empty in all three fields, in order
KeptRows(i) ==
    LET rows == KeyFields(i)
    IN  TakeIdx(rows, {r \in 1..Len(rows) :
                          \/ rows[r].prog.t # "nan"
                          \/ rows[r].house.t # "nan"
                          \/ rows[r].viewers.t # "nan"})

\* the column of a label in the template's header row
TemplateCol(label) ==
    CHOOSE j \in 1..Len(template_excel_bytes.header) :
        /\ template_excel_bytes.header[j].t # "nan"
        /\ Strip(template_excel_bytes.header[j].v) = label

\* the month written by the Populator
MonthText ==
    IF month_str = None THEN Txt(<<"12", "/", "2025">>) ELSE month_str

\* C7: the k-th source row that is not empty in program, house identifier
\* and viewer count is written to template row 4 + k: program as text, the
\* raw house identifier, the raw viewer count and the month; rows empty in
\* all three take no row.
C7_RowsWrittenInOrderNoGaps ==
    \A i \in 1..Len(mapped) :
        DictHas(templated, <<PFX_TEMPLATE>> \o mapped[i].k) =>
            LET doc == DictGet(templated, <<PFX_TEMPLATE>> \o mapped[i].k)
                kept == KeptRows(i)
            IN  /\ Len(doc.data) =
                      (IF Len(kept) > Len(template_excel_bytes.data)
                       THEN Len(kept) ELSE Len(template_excel_bytes.data))
                /\ \A k \in 1..Len(kept) :
                      /\ doc.data[k][TemplateCol(template_prog_col_name)] =
                            (IF kept[k].prog.t = "nan" THEN [t |-> "str", v |-> <<"nan">>]
                             ELSE [t |-> "str", v |-> kept[k].prog.v])
                      /\ doc.data[k][TemplateCol(template_house_col_name)] = kept[k].house
                      /\ doc.data[k][TemplateCol(template_viewers_col_name)] = kept[k].viewers
                      /\ doc.data[k][TemplateCol(template_date_col_name)] = MonthText

C7_Witness ==
    /\ pc = "done"
    /\ \E i \in 1..Len(mapped) :
          /\ DictHas(templated, <<PFX_TEMPLATE>> \o mapped[i].k)
          /\ \E r \in 1..(Len(KeyFields(i)) - 1) :
                /\ KeyFields(i)[r] = [prog |-> NaN, house |-> NaN, viewers |-> NaN]
                /\ KeyFields(i)[r + 1].prog.t = "str"
                /\ KeyFields(i)[r + 1].house.t = "nan"
                /\ KeyFields(i)[r + 1].viewers.t = "nan"

\* a role of document i is unresolved, or a resolved column is absent from its table
GateFails(i) ==
    \/ _decide_template_program_col(mapped[i].k) = None
    \/ _decide_viewers_col(mapped[i].k) = None
    \/ \A j \in 1..Len(MappedFrame(i).columns) :
          MappedFrame(i).columns[j] # _decide_template_program_col(mapped[i].k)
    \/ \A j \in 1..Len(MappedFrame(i).columns) :
          MappedFrame(i).columns[j] # _decide_mapped_house_col(mapped[i].k)
    \/ \A j \in 1..Len(MappedFrame(i).columns) :
          MappedFrame(i).columns[j] # _decide_viewers_col(mapped[i].k)

\* C8: a reconciled file with an unresolved role or an absent resolved
\* column gives no output document and raises no error, and the other files
\* of the run are still populated.
C8_GateFailureSkipsFile ==
    /\ err # "KeyError"
    /\ entry = FILL => pc # "error"
    /\ \A i \in 1..Len(mapped) :
          Populated(i) =>
              /\ GateFails(i) => ~DictHas(templated, <<PFX_TEMPLATE>> \o mapped[i].k)
              /\ (/\ ~GateFails(i)
                  /\ IsExcelText(mapped[i].k)
                  /\ ~LacksRequiredLabel(template_excel_bytes))
                     => DictHas(templated, <<PFX_TEMPLATE>> \o mapped[i].k)

C8_Witness ==
    /\ pc = "done"
    /\ Len(mapped) = 2
    /\ ~GateFails(1)
    /\ DictHas(templated, <<PFX_TEMPLATE>> \o mapped[1].k)
    /\ _decide_template_program_col(mapped[2].k) # None
    /\ GateFails(2)
    /\ Len(templated) = 1

\* the legend cells of a populated document: the template's, filled yellow
\* where the stripped text equals the given text
LegendOf(cells, text) ==
    [c \in 1..Len(cells) |->
        IF cells[c].value.t # "nan" /\ Strip(cells[c].value.v) = text
        THEN [value |-> cells[c].value, fill |-> YELLOW]
        ELSE cells[c]]

\* every populated document is the template with only its own file's marks
OwnContentOnly ==
    \A i \in 1..Len(mapped) :
        DictHas(templated, <<PFX_TEMPLATE>> \o mapped[i].k) =>
            LET doc == DictGet(templated, <<PFX_TEMPLATE>> \o mapped[i].k)
                t == template_excel_bytes
                kept == KeptRows(i)
                written == {TemplateCol(template_prog_col_name),
                            TemplateCol(template_house_col_name),
                            TemplateCol(template_viewers_col_name),
                            TemplateCol(template_date_col_name)}
            IN  /\ doc.B1 = MonthText
                /\ doc.B2 = _decide_platform_label(mapped[i].k)
                /\ doc.Q = LegendOf(t.Q, Strip(_decide_platform_label(mapped[i].k).v))
                /\ doc.P = LegendOf(t.P, MonthText.v)
                /\ doc.header = t.header
                /\ \A r \in 1..Len(doc.data) : \A c \in 1..Len(doc.data[r]) :
                      (r > Len(kept) \/ c \notin written) =>
                          doc.data[r][c] = (IF r <= Len(t.data) THEN t.data[r][c] ELSE NaN)

\* C9: populating a file leaves the template bytes unchanged, and every
\* populated document is the original template carrying only the marks and
\* rows of its own file, whatever was populated before it.
C9_FreshTemplatePerFile ==
    /\ [][template_excel_bytes' = template_excel_bytes]_vars
    /\ []OwnContentOnly

C9_Witness ==
    /\ pc = "done"
    /\ Len(templated) = 2
    /\ templated[1].v.B2 # templated[2].v.B2
    /\ Len(KeptRows(1)) > Len(KeptRows(2))
    /\ template_excel_bytes.data # <<>>

\* C10: the archive holds exactly the populated documents, plus every
\* extracted and every reconciled document when include_intermediate is set,
\* and the summary counts are the sizes of the three outputs.
C10_ArchiveAndCounts ==
    (entry = RUN /\ pc = "done") =>
        /\ {zip_names[i] : i \in 1..Len(zip_names)} =
              DictKeys(templated) \cup
              (IF include_intermediate THEN DictKeys(cleaned) \cup DictKeys(mapped) ELSE {})
        /\ \A i, k \in 1..Len(zip_names) : zip_names[i] = zip_names[k] => i = k
        /\ summary.cleaned = Cardinality(DictKeys(cleaned))
        /\ summary.mapped = Cardinality(DictKeys(mapped))
        /\ summary.templated = Cardinality(DictKeys(templated))

C10_Witness ==
    /\ entry = RUN
    /\ pc = "done"
    /\ include_intermediate
    /\ summary = [cleaned |-> 2, mapped |-> 1, templated |-> 1]
    /\ Len(zip_names) = 4

-----------------------------------------------------------------------------
(* The Extractor's helpers called on a raw grid *)

MaxGridRows == 8

GridWidth == 4

\* a row one cell short of the density of line 51: it has data and is not dense
SparseRow == [j \in 1..GridWidth |-> IF j < DENSE_MIN THEN X ELSE NaN]

DenseRow == [j \in 1..GridWidth |-> X]

GridRowKinds == {BlankRow(GridWidth), SparseRow, DenseRow}

Grids == UNION {[1..n -> GridRowKinds] : n \in 0..MaxGridRows}

FIND_START == "_find_table_start"

FILTER == "_filter_rows"

\* the variables of the pipeline, idle while a helper is called on its own
pipeline ==
    <<err, platform_files, db_excel_bytes, template_excel_bytes, include_intermediate,
      month_str, cleaned, mapped, templated, idx, db_lookups, wb, emit_log, zip_names,
      summary>>

InitIdle ==
    /\ err = "none"
    /\ platform_files = <<>>
    /\ db_excel_bytes = <<>>
    /\ template_excel_bytes = NoWb
    /\ include_intermediate = FALSE
    /\ month_str = None
    /\ cleaned = <<>>
    /\ mapped = <<>>
    /\ templated = <<>>
    /\ idx = 1
    /\ db_lookups = <<>>
    /\ wb = NoWb
    /\ emit_log = <<>>
    /\ zip_names = <<>>
    /\ summary = NoSummary

InitGrid ==
    /\ entry \in {FIND_START, FILTER}
    /\ pc = "call"
    /\ arg \in Grids
    /\ ret = <<>>
    /\ InitIdle

\* table_start = _find_table_start(df)
FindStartCall ==
    /\ entry = FIND_START
    /\ pc = "call"
    /\ ret' = <<_find_table_start(arg)>>
    /\ pc' = "done"
    /\ UNCHANGED <<arg, entry, pipeline>>

\* df = _filter_rows(df), on the grid and then again on its own result
FilterRowsCall ==
    /\ entry = FILTER
    /\ pc = "call"
    /\ ret' = Append(ret, _filter_rows(IF ret = <<>> THEN arg ELSE ret[Len(ret)]))
    /\ pc' = IF Len(ret) = 1 THEN "done" ELSE "call"
    /\ UNCHANGED <<arg, entry, pipeline>>

NextGrid ==
    \/ FindStartCall
    \/ FilterRowsCall

SpecGrid == InitGrid /\ [][NextGrid]_vars

\* rows a..b (0-based) of g are a block of at least 6 rows with >= 4 filled
\* cells each, and the rows next to it, if any, have fewer
DenseBlock(g, a, b) ==
    /\ b - a >= LOOKAHEAD
    /\ \A i \in a..b : FilledCount(g[i + 1]) >= DENSE_MIN
    /\ a > 0 => FilledCount(g[a]) < DENSE_MIN
    /\ b < Len(g) - 1 => FilledCount(g[b + 2]) < DENSE_MIN

DenseBlockStarts(g) == {a \in 0..(Len(g) - 1) : \E b \in a..(Len(g) - 1) : DenseBlock(g, a, b)}

\* row a (0-based) starts a run of at least 6 rows with data and the row
\* above it, if any, is entirely empty
DataRunStart(g, a) ==
    /\ a + LOOKAHEAD <= Len(g) - 1
    /\ \A i \in a..(a + LOOKAHEAD) : RowHasData(g[i + 1])
    /\ a > 0 => ~RowHasData(g[a])

DataRunStarts(g) == {a \in 0..(Len(g) - 1) : DataRunStart(g, a)}

Min(S) == CHOOSE a \in S : \A b \in S : a <= b

\* C11 as stated: on a grid holding a block of at least 6 dense rows with
\* sparse rows around it, _find_table_start returns the first row of the
\* (topmost) block
C11_StartIsFirstDenseRow ==
    (entry = FIND_START /\ pc = "done" /\ DenseBlockStarts(arg) # {})
        => ret[1] = Min(DenseBlockStarts(arg))

\* C11 amended: _find_table_start returns the first row of the topmost run of
\* at least 6 rows that each have a non-empty cell and whose row above is
\* entirely empty or absent, and None when the grid has no such run; the
\* start of a dense block is returned when the row above it is empty
C11_StartIsFirstDataRunRow ==
    (entry = FIND_START /\ pc = "done") =>
        /\ ret[1] = IF DataRunStarts(arg) = {} THEN NoStart ELSE Min(DataRunStarts(arg))
        /\ \A a \in DenseBlockStarts(arg) :
              (a > 0 /\ ~RowHasData(arg[a]) /\ \A b \in DataRunStarts(arg) : b >= a)
                  => ret[1] = a

\* a dense block of exactly 6 rows at the bottom of the grid, two empty rows
\* above it, found at index 2
C11_Witness ==
    /\ entry = FIND_START
    /\ pc = "done"
    /\ Len(arg) = 8
    /\ DenseBlock(arg, 2, 7)
    /\ ~RowHasData(arg[1]) /\ ~RowHasData(arg[2])
    /\ ret = <<2>>

\* C15: _filter_rows is idempotent: filtering a filtered table returns it
\* unchanged, and every row of a filtered table has at least 4 non-empty cells
C15_FilterIdempotent ==
    entry = FILTER =>
        /\ Len(ret) >= 1 =>
              \A i \in 1..Len(ret[1]) : FilledCount(ret[1][i]) >= DENSE_MIN
        /\ Len(ret) = 2 => ret[2] = ret[1]

\* a grid that lost rows to the first pass and kept some, filtered twice
C15_Witness ==
    /\ entry = FILTER
    /\ pc = "done"
    /\ Len(ret) = 2
    /\ Len(ret[1]) >= 2
    /\ Len(ret[1]) < Len(arg)
    /\ \E i \in 2..Len(arg) : arg[i] = DenseRow /\ arg[i - 1] = SparseRow

-----------------------------------------------------------------------------
(* The Reconciler's text helpers called on a program value *)

MaxTextLen == 5

DashAlphabet == {"a", "b", " ", TAB, "-", EN_DASH, EM_DASH}

\* the values of a program cell: every short text, and the empty cell
DashInputs ==
    {Txt(s) : s \in UNION {[1..n -> DashAlphabet] : n \in 0..MaxTextLen}} \cup {NaN}

NORMALIZE == "normalize_dash"

SWAP == "swap_dash"

InitDash ==
    /\ entry \in {NORMALIZE, SWAP}
    /\ pc = "call"
    /\ arg \in DashInputs
    /\ ret = <<>>
    /\ InitIdle

NormalizeCall ==
    /\ entry = NORMALIZE
    /\ pc = "call"
    /\ ret' = <<normalize_dash(arg)>>
    /\ pc' = "done"
    /\ UNCHANGED <<arg, entry, pipeline>>

SwapCall ==
    /\ entry = SWAP
    /\ pc = "call"
    /\ ret' = <<swap_dash(arg)>>
    /\ pc' = "done"
    /\ UNCHANGED <<arg, entry, pipeline>>

NextDash ==
    \/ NormalizeCall
    \/ SwapCall

SpecDash == InitDash /\ [][NextDash]_vars

DashFree(s) == \A i \in 1..Len(s) : ~IsDash(s[i])

AllSpace(s) == \A i \in 1..Len(s) : IsSpace(s[i])

\* the ways to read s as A, whitespace, one dash, whitespace, B with A and B
\* non-empty and dash-free: A = s[1..p], the dash at i, B = s[q..]
Readings(s) ==
    {r \in (1..Len(s)) \X (1..Len(s)) \X (1..Len(s)) :
        /\ r[1] < r[2] /\ r[2] < r[3]
        /\ IsDash(s[r[2]])
        /\ DashFree(SubSeq(s, 1, r[2] - 1)) /\ DashFree(SubSeq(s, r[2] + 1, Len(s)))
        /\ AllSpace(SubSeq(s, r[1] + 1, r[2] - 1))
        /\ AllSpace(SubSeq(s, r[2] + 1, r[3] - 1))}

NameA(s, r) == SubSeq(s, 1, r[1])

NameB(s, r) == SubSeq(s, r[3], Len(s))

Key(a, b) == Txt(a \o <<" ", "-", " ">> \o b)

\* a name without whitespace at its ends and with single spaces only inside
Trimmed(n) ==
    /\ Len(n) > 0
    /\ ~IsSpace(n[1]) /\ ~IsSpace(n[Len(n)])
    /\ \A i \in 1..Len(n) : n[i] # TAB
    /\ \A i \in 2..Len(n) : ~(n[i] = " " /\ n[i - 1] = " ")

\* some dash of s has text that is not whitespace on its left and on its right
HasDashForm(s) ==
    \E i \in 1..Len(s) :
        /\ IsDash(s[i])
        /\ \E j \in 1..(i - 1) : ~IsSpace(s[j])
        /\ \E k \in (i + 1)..Len(s) : ~IsSpace(s[k])

\* C14 as stated: for any dash-free non-empty A and B, every variant of A and
\* B joined by a dash with whitespace around it normalises to "A - B" and
\* swaps to "B - A"; swap_dash returns None for a name not of that form
C14_AnyNamesOneKey ==
    (pc = "done" /\ entry \in {NORMALIZE, SWAP} /\ isinstance_str(arg)) =>
        /\ \A r \in Readings(arg.v) :
              ret[1] = IF entry = NORMALIZE THEN Key(NameA(arg.v, r), NameB(arg.v, r))
                       ELSE Key(NameB(arg.v, r), NameA(arg.v, r))
        /\ (entry = SWAP /\ ~HasDashForm(arg.v)) => ret[1] = None

\* C14 amended: the same for names A and B that are whitespace-normalised
\* (no whitespace at the ends, single spaces inside); swap_dash returns None
\* exactly for a value that is no text or has no dash with text on both sides
C14_TrimmedNamesOneKey ==
    (pc = "done" /\ entry \in {NORMALIZE, SWAP}) =>
        IF isinstance_str(arg)
        THEN /\ \A r \in Readings(arg.v) :
                   (Trimmed(NameA(arg.v, r)) /\ Trimmed(NameB(arg.v, r))) =>
                       ret[1] = IF entry = NORMALIZE
                                THEN Key(NameA(arg.v, r), NameB(arg.v, r))
                                ELSE Key(NameB(arg.v, r), NameA(arg.v, r))
             /\ entry = SWAP => (ret[1] = None <=> ~HasDashForm(arg.v))
        ELSE ret[1] = IF entry = NORMALIZE THEN Txt(<<>>) ELSE None

\* "a", tab, em dash, space, "b" swapped to "b - a"
C14_Witness ==
    /\ entry = SWAP
    /\ pc = "done"
    /\ arg = Txt(<<"a", TAB, EM_DASH, " ", "b">>)
    /\ ret = <<Txt(<<"b", " ", "-", " ", "a">>)>>

-----------------------------------------------------------------------------
(* map_house_numbers called on one cleaned document *)

MaxMapRows == 2

DbRow(house, keshet, platform) ==
    [HOUSE_NUMBER |-> house, keshet |-> keshet, platform |-> platform]

AB == Txt(<<"A", " ", "-", " ", "B">>)

BA == Txt(<<"B", " ", "-", " ", "A">>)

\* reference maps: the one of the runs; one whose shared canonical name meets
\* its longest vendor name first and whose vendor names repeat canonical
\* names of other rows; one with a row that has no canonical name
Dbs ==
    { DbRows,
      <<DbRow(Num(7), Txt(<<"D">>), Txt(<<"C">>)),
        DbRow(Num(3), AB, Txt(<<"Q", "l", "o", "n", "g">>)),
        DbRow(Num(2), AB, Txt(<<"Q">>)),
        DbRow(Num(1), Txt(<<"C">>), Txt(<<"C", "p">>)),
        DbRow(Num(8), Txt(<<"E">>), BA),
        DbRow(Num(5), Txt(<<"F">>), NaN)>>,
      DbRows \o <<DbRow(Num(9), NaN, Txt(<<"Z", "p">>))>> }

\* program values of the vendor table
ProgValues ==
    {Txt(<<"A">>), Txt(<<"C">>), AB, BA, Txt(<<"B", EM_DASH, "A">>), Txt(<<"Q">>),
     Txt(<<"Z">>), NaN}

MapTables == UNION {[1..n -> {<<v, Num(1)>> : v \in ProgValues}] : n \in 1..MaxMapRows}

\* the Extractor's output for one Partner sheet
MapInputs ==
    {<<[k |-> <<PFX_CLEANED, TOK_PARTNER, "_", "S", ".xlsx">>,
        v |-> to_excel(Frame(<<COL_PARTNER_PROG, COL_PARTNER_VIEWERS>>, rows))]>> :
        rows \in MapTables}

MAP == "map_house_numbers"

\* map_house_numbers(cleaned_excels, db_excel_bytes)
InitMap ==
    /\ entry = MAP
    /\ pc = "map_init"
    /\ cleaned \in MapInputs
    /\ db_excel_bytes \in Dbs
    /\ err = "none"
    /\ platform_files = <<>>
    /\ template_excel_bytes = NoWb
    /\ include_intermediate = FALSE
    /\ month_str = None
    /\ mapped = <<>>
    /\ templated = <<>>
    /\ idx = 1
    /\ db_lookups = <<>>
    /\ wb = NoWb
    /\ emit_log = <<>>
    /\ zip_names = <<>>
    /\ summary = NoSummary
    /\ arg = <<>>
    /\ ret = <<>>

NextMap ==
    \/ MapInit
    \/ MapFile
    \/ MapReturn

SpecMap == InitMap /\ [][NextMap]_vars

\* the db rows whose canonical name is exactly the value
CanonHits(db, v) == {a \in 1..Len(db) : notna(v) /\ db[a].keshet = v}

\* the db rows whose vendor display name is exactly the value
VendorHits(db, v) == {a \in 1..Len(db) : notna(v) /\ db[a].platform = v}

\* the db rows whose canonical name, dashes normalised, is the value swapped
SwapHits(db, v) ==
    IF swap_dash(v) = None THEN {}
    ELSE {a \in 1..Len(db) :
             isinstance_str(db[a].keshet)
             /\ normalize_dash(db[a].keshet) = normalize_dash(swap_dash(v))}

\* the row of S with the longest vendor display name, the first of them in db order
Longest(db, S) ==
    CHOOSE a \in S : \A b \in S :
        \/ StrLen(db[a].platform) > StrLen(db[b].platform)
        \/ StrLen(db[a].platform) = StrLen(db[b].platform) /\ a <= b

\* the HOUSE_NUMBER the three tiers give in strict precedence, empty when none matches
TierHouse(db, v) ==
    IF CanonHits(db, v) # {} THEN db[Min(CanonHits(db, v))].HOUSE_NUMBER
    ELSE IF VendorHits(db, v) # {} THEN db[Min(VendorHits(db, v))].HOUSE_NUMBER
    ELSE IF SwapHits(db, v) # {} THEN db[Longest(db, SwapHits(db, v))].HOUSE_NUMBER
    ELSE NaN

\* the table given to the Reconciler and the table it returned
MapIn == read_excel(cleaned[1].v)

MapOut == read_excel(mapped[1].v)

\* C12: per row the canonical-name match is used if present, else the
\* vendor-name match, else the dash-swapped fallback; an earlier tier is never
\* overwritten, and a row matched by no tier is kept with an empty HOUSE_NUMBER
C12_ThreeTiersInPrecedence ==
    (entry = MAP /\ Len(mapped) = 1) =>
        /\ MapOut.columns = Append(MapIn.columns, COL_HOUSE_NUMBER)
        /\ \A i \in 1..Len(MapIn.rows) : \E j \in 1..Len(MapOut.rows) :
              MapOut.rows[j] = Append(MapIn.rows[i], TierHouse(db_excel_bytes, MapIn.rows[i][1]))
        /\ \A j \in 1..Len(MapOut.rows) : \E i \in 1..Len(MapIn.rows) :
              MapOut.rows[j] = Append(MapIn.rows[i], TierHouse(db_excel_bytes, MapIn.rows[i][1]))

\* S holds two db rows with the same canonical name and vendor display names
\* of different lengths
TwoLengths(db, S) ==
    \E a \in S : \E b \in S :
        /\ db[a].keshet = db[b].keshet
        /\ StrLen(db[a].platform) # StrLen(db[b].platform)

\* C13: with two reference rows sharing a canonical name and differing in the
\* length of the vendor display name, the exact join attaches the HOUSE_NUMBER
\* of the first-seen row and the dash-swapped fallback that of the row with
\* the longest vendor display name; the result depends on the inputs only
C13_TieBreaks ==
    (entry = MAP /\ Len(mapped) = 1) =>
        \A j \in 1..Len(MapOut.rows) :
            LET v == MapOut.rows[j][1]
                h == MapOut.rows[j][Len(MapOut.rows[j])]
                db == db_excel_bytes
            IN  /\ TwoLengths(db, CanonHits(db, v))
                        => h = db[Min(CanonHits(db, v))].HOUSE_NUMBER
                /\ (/\ CanonHits(db, v) = {}
                    /\ VendorHits(db, v) = {}
                    /\ TwoLengths(db, SwapHits(db, v)))
                        => h = db[Longest(db, SwapHits(db, v))].HOUSE_NUMBER

\* "A - B" joined to the first-seen row (2, vendor name "Q") and "B-A" with an
\* em dash swapped to the row with the longest vendor name (3, "Qlong")
C13_Witness ==
    /\ entry = MAP
    /\ pc = "done"
    /\ db_excel_bytes = DbRows
    /\ Len(mapped) = 1
    /\ MapOut.rows = <<<<AB, Num(1), Num(2)>>, <<Txt(<<"B", EM_DASH, "A">>), Num(1), Num(3)>>>>

-----------------------------------------------------------------------------
(* Column resolution of the Reconciler and of the Populator on one file name *)

MaxTokens == 2

\* the pieces a file or sheet name is made of
NameTokens ==
    {TOK_PARTNER, TOK_YES, TOK_STING, TOK_CELLCOM, TOK_HOT, TOK_SIFRIA, TOK_SIFRIYA,
     "ScreenIL", "screenil", "VOD", "vod", "NEXT", "Next", "r"}

\* names of cleaned documents: cleaned_<tokens>.xlsx
CleanedNames ==
    {<<PFX_CLEANED>> \o toks \o <<".xlsx">> :
        toks \in UNION {[1..n -> NameTokens] : n \in 1..MaxTokens}}

RESOLVE == "resolve_columns"

\* lines 234, 300 and 325: the branch map_house_numbers takes for a name
Branch(cleaned_name) ==
    IF _decide_program_col(cleaned_name) # None THEN "name"
    ELSE IF _decide_house_key_col(cleaned_name) # None THEN "house_key"
    ELSE "copy"

InitResolve ==
    /\ entry = RESOLVE
    /\ pc = "map"
    /\ arg \in CleanedNames
    /\ ret = <<>>
    /\ InitIdle

\* lines 228-231: the roles the Reconciler resolves for cleaned_name
ResolveInMap ==
    /\ entry = RESOLVE
    /\ pc = "map"
    /\ ret' = <<[program_col |-> _decide_program_col(arg),
                 house_key_col |-> _decide_house_key_col(arg),
                 branch |-> Branch(arg),
                 output_name |-> MappedName(arg)]>>
    /\ pc' = "fill"
    /\ UNCHANGED <<arg, entry, pipeline>>

\* lines 437-446: the roles the Populator resolves for mapped_name
ResolveInFill ==
    /\ entry = RESOLVE
    /\ pc = "fill"
    /\ LET mapped_name == ret[1].output_name
       IN  ret' = Append(ret, [program_col |-> _decide_template_program_col(mapped_name),
                               viewers_col |-> _decide_viewers_col(mapped_name),
                               platform |-> _decide_platform_label(mapped_name),
                               mapped_house_col |-> _decide_mapped_house_col(mapped_name),
                               resolved |-> RolesResolved(mapped_name)])
    /\ pc' = "done"
    /\ UNCHANGED <<arg, entry, pipeline>>

NextResolve ==
    \/ ResolveInMap
    \/ ResolveInFill

SpecResolve == InitResolve /\ [][NextResolve]_vars

\* C16: for every name on which the Populator resolves all its roles, it
\* reads the house identifier from HOUSE_NUMBER exactly when the Reconciler
\* took the name-based branch, and from the vendor house-key column exactly
\* when the Reconciler took the house-key branch, also for names that hold
\* tokens of both kinds of vendor
C16_ResolutionConsistent ==
    (entry = RESOLVE /\ pc = "done" /\ ret[2].resolved) =>
        /\ ret[2].mapped_house_col = COL_HOUSE_NUMBER <=> ret[1].branch = "name"
        /\ (/\ ret[1].house_key_col # None
            /\ ret[2].mapped_house_col = ret[1].house_key_col) <=> ret[1].branch = "house_key"

====
